---- MODULE Spec2Model ----
(***************************************************************************)
(* PaperRadar: the conference intelligence pipeline.                       *)
(*                                                                         *)
(* The module models, from the Python sources under src/paper_radar:       *)
(*   - the trigger engine            (ccf_monitor.py, db.py)               *)
(*   - the cascading collector       (collector.py, db.py)                 *)
(*   - the code verification engine  (code_verifier.py)                    *)
(*   - the enrichment loop           (workflow.py, llm_mcp.py, db.py)      *)
(* Each part has its own specification (SpecTrigger, SpecCollect, ...);    *)
(* the variables of the other parts stay at their initial value.           *)
(***************************************************************************)
EXTENDS Integers, Sequences, FiniteSets, TLC

VARIABLES
    \* ---- trigger engine ----
    now,            \* the UTC clock: the current day
    config_confs,   \* AppConfig.conferences
    lag_days,       \* MonitoringConfig.deadline_lag_days
    deadlines,      \* the {acronym -> deadline} dict of the last run
    conferences,    \* the conferences table, keyed by <<name, year>>
    triggered,      \* the list the last select_triggered_conferences returned
    stamped,        \* the keys whose triggered_at the last run wrote
    ranAt,          \* the local `now` of the last run, NULL before the first
    runs,           \* the number of pipeline runs so far
    \* ---- collector and papers table ----
    source_priority,  \* ConferenceConfig.source_priority (<<>> when unset)
    sources,          \* what each adapter returns: source -> list of records
    papers,           \* the papers table, in insertion (id) order
    collected,        \* the list the last collect_papers returned
    collectRuns,      \* the number of collect-and-insert passes so far
    outage,           \* the adapter whose request fails in the passes, and how
    collectRaised,    \* whether the last collect_papers raised
    \* ---- code verification: one call of verify_repo ----
    v_pc,             \* where verify_repo is: the next external call, or its end
    v_calls,          \* the code-hosting and collaborator calls made so far
    v_paper_date,     \* the paper_date argument
    v_llm,            \* whether an LLM client was passed
    v_meta,           \* what fetch_repo_metadata returned
    v_files,          \* the names of the root-level listing (<<>> if none was read)
    v_has_readme,     \* the locals of verify_repo
    v_has_code,
    v_last_commit,
    v_status,
    v_recency_fired,  \* whether the recency step set the status
    v_llm_fired,      \* whether the LLM step set the status
    v_plan,           \* what the plan call of run_tool_plan gave
    v_judgment,       \* what check_repo_placeholder returned, if it was called
    \* ---- enrichment: the summarization loop of process_conference ----
    s_pc,             \* "start", "chat" (inside _chat_json), "done", "raised"
    s_papers,         \* the ids of the conference's papers (all with an abstract)
    max_batch_size,   \* LLMConfig.max_batch_size
    summaries,        \* the paper ids that have a row in the summaries table
    s_batch,          \* the local `batch`: the ids of the rows last fetched
    s_attempt,        \* the attempts _chat_json has made in its current call
    s_calls,          \* collaborator (chat) calls made so far
    s_batches,        \* batch_summarize calls made so far
    s_wellformed,     \* whether every response so far parsed and covered its batch
    cj_responses,     \* the responses the current/last _chat_json call received
    cj_ret,           \* what the last _chat_json call returned ("pending" inside)
    \* ---- enrichment: the clusters table ----
    clusters,         \* the clusters table, in insertion (id) order
    c_args,           \* the arguments of the last save_clusters call
    c_raised,         \* whether the last save_clusters call raised
    c_replaced,       \* whether it replaced other, earlier assignments
    \* ---- the code_links table ----
    code_links,       \* the code_links table, in insertion (id) order
    cl_args,          \* the arguments of the last save_code_link call
    cl_replaced,      \* whether it replaced another verdict of its pair
    \* ---- one pipeline run: Pipeline.__init__, run, process_conference ----
    p_pc,             \* where the run is: "new", "run", a stage, "done", "aborted"
    p_key,            \* the LLM key of the environment: missing, empty or set
    p_llm,            \* whether self._llm_client is a client
    p_triggered,      \* the list select_triggered_conferences returned
    p_idx,            \* the position in it of the conference being processed
    p_vidx,           \* the position of the next candidate link of the conference
    p_log,            \* the stages started so far, in order
    p_writes,         \* the <<conference, table>> this run has written rows to
    p_collab,         \* the <<conference, stage>> that called the collaborator
    p_failure,        \* what raised out of the run, "none" if nothing did
    \* ---- enrichment: the trends table, lines 72-79 of process_conference ----
    trends,           \* the trends table, in insertion (id) order
    t_trend,          \* what summarize_trend returned in the last pass
    t_saved           \* whether the last pass called save_trend

trigVars == <<now, config_confs, lag_days, deadlines, conferences, triggered,
              stamped, ranAt, runs>>

collVars == <<source_priority, sources, papers, collected, collectRuns,
              outage, collectRaised>>

verVars == <<v_pc, v_calls, v_paper_date, v_llm, v_meta, v_files, v_has_readme,
             v_has_code, v_last_commit, v_status, v_recency_fired, v_llm_fired,
             v_plan, v_judgment>>

sumVars == <<s_pc, s_papers, max_batch_size, summaries, s_batch, s_attempt,
             s_calls, s_batches, s_wellformed, cj_responses, cj_ret>>

cluVars == <<clusters, c_args, c_raised, c_replaced>>

linkVars == <<code_links, cl_args, cl_replaced>>

pipeVars == <<p_pc, p_key, p_llm, p_triggered, p_idx, p_vidx, p_log, p_writes,
              p_collab, p_failure>>

trendVars == <<trends, t_trend, t_saved>>

\* the variables of the other parts
notTrig ==
    <<collVars, verVars, sumVars, cluVars, linkVars, pipeVars,
      trendVars>>

notColl ==
    <<trigVars, verVars, sumVars, cluVars, linkVars, pipeVars,
      trendVars>>

notVer ==
    <<trigVars, collVars, sumVars, cluVars, linkVars, pipeVars,
      trendVars>>

notSum ==
    <<trigVars, collVars, verVars, cluVars, linkVars, pipeVars,
      trendVars>>

notClu ==
    <<trigVars, collVars, verVars, sumVars, linkVars, pipeVars,
      trendVars>>

notLink ==
    <<trigVars, collVars, verVars, sumVars, cluVars, pipeVars,
      trendVars>>

\* process_conference saves the result of verify_repo in code_links
notVerLink == <<trigVars, collVars, sumVars, cluVars, pipeVars, trendVars>>

\* a pipeline run writes the code_links table too
notPipe == <<trigVars, collVars, verVars, sumVars, cluVars, trendVars>>

\* the clustering-and-trend block writes the clusters table too
notTrend == <<trigVars, collVars, verVars, sumVars, linkVars, pipeVars>>

Range(s) == {s[i] : i \in DOMAIN s}

(***************************************************************************)
(* Characters and case conversion (str.upper / str.lower).  A string is a  *)
(* sequence of one-character strings.                                      *)
(***************************************************************************)
ToUpper(c) ==
    CASE c = "a" -> "A" [] c = "b" -> "B" [] c = "p" -> "P" [] c = "y" -> "Y"
      [] OTHER -> c

ToLower(c) ==
    CASE c = "A" -> "a" [] c = "B" -> "b" [] c = "P" -> "p" [] c = "Y" -> "y"
      [] OTHER -> c

upper(s) == [i \in DOMAIN s |-> ToUpper(s[i])]

lower(s) == [i \in DOMAIN s |-> ToLower(s[i])]

(***************************************************************************)
(* Bounds of the trigger engine's model.                                   *)
(***************************************************************************)
MaxDay == 1
MaxLag == 1
MaxRuns == 2

MaxNow == MaxDay + MaxLag

NULL == -1

(***************************************************************************)
(* The configured conferences: two names that differ only in case (and so  *)
(* share an acronym) and one other.                                        *)
(***************************************************************************)
ConfList ==
    << [name |-> <<"a">>, year |-> 1],
       [name |-> <<"b">>, year |-> 1],
       [name |-> <<"A">>, year |-> 2] >>

ConfKey(conf) == <<conf.name, conf.year>>

ConfKeys == {ConfKey(ConfList[i]) : i \in DOMAIN ConfList}

Acronyms == {upper(ConfList[i].name) : i \in DOMAIN ConfList}

(***************************************************************************)
(* A value of the deadline dict (load_deadlines):                          *)
(*   none      - the acronym is not in the feed (deadlines.get gives None) *)
(*   malformed - a value the parse rejects: a string that                  *)
(*               datetime.fromisoformat refuses, or the date object        *)
(*               yaml.safe_load gives for an unquoted date, whose          *)
(*               .replace("Z", ...) raises TypeError                       *)
(*   iso       - an ISO-8601 string; day is the date it holds              *)
(***************************************************************************)
NoDeadline == [kind |-> "none", day |-> 0]

Malformed == [kind |-> "malformed", day |-> 0]

IsoDeadline(d) == [kind |-> "iso", day |-> d]

DeadlineVals == {NoDeadline, Malformed} \cup {IsoDeadline(d) : d \in 0..MaxDay}

\* the feeds a run may read: any value for acronym A, and for acronym B
\* either no entry or a deadline on day 0
Feeds ==
    {f \in [Acronyms -> DeadlineVals] :
        f[<<"B">>] \in {NoDeadline, IsoDeadline(0)}}

ParseDeadlineDate_lenient(deadline_str) ==
    [ok |-> TRUE, date |-> deadline_str.day]

\* datetime.fromisoformat(deadline_str.replace("Z", "+00:00")).date():
\* the date of a well-formed string, or an exception
ParseDeadlineDate(deadline_str) ==
    [ok |-> deadline_str.kind = "iso", date |-> deadline_str.day]

(***************************************************************************)
(* db.py: the conferences table.                                           *)
(***************************************************************************)
NoRow == [present |-> FALSE, deadline |-> NoDeadline, triggered_at |-> NULL]

\* INSERT OR IGNORE INTO conferences (name, year, deadline)
upsert_conference(tbl, name, year, deadline) ==
    IF tbl[<<name, year>>].present
    THEN tbl
    ELSE [tbl EXCEPT ![<<name, year>>] =
             [present |-> TRUE, deadline |-> deadline, triggered_at |-> NULL]]

\* UPDATE conferences SET triggered_at=utcnow WHERE name=? AND year=?
mark_conference_triggered(tbl, name, year, utcnow) ==
    IF tbl[<<name, year>>].present
    THEN [tbl EXCEPT ![<<name, year>>].triggered_at = utcnow]
    ELSE tbl

(***************************************************************************)
(* ccf_monitor.py: select_triggered_conferences.                           *)
(***************************************************************************)
Activates_strict(today, deadline_date, lag) == today > deadline_date + lag

\* now.date() >= deadline_date + timedelta(days=lag_days)
Activates(today, deadline_date, lag) == today >= deadline_date + lag

\* one iteration of the loop over config_confs; acc is the state so far
select_step(acc, conf, dls, lag, nowT) ==
    LET deadline_str == dls[upper(conf.name)]
        tbl1 == upsert_conference(acc.tbl, conf.name, conf.year, deadline_str)
        parsed == ParseDeadlineDate(deadline_str)
    IN  IF deadline_str.kind = "none"
        THEN [acc EXCEPT !.tbl = tbl1]
        ELSE IF ~parsed.ok
        THEN [acc EXCEPT !.tbl = tbl1]
        ELSE IF Activates(nowT, parsed.date, lag)
        THEN [tbl |-> mark_conference_triggered(tbl1, conf.name, conf.year, nowT),
              triggered |-> Append(acc.triggered, conf),
              stamped |-> acc.stamped \cup {ConfKey(conf)}]
        ELSE [acc EXCEPT !.tbl = tbl1]

RECURSIVE select_loop(_, _, _, _, _, _)
select_loop(acc, confs, i, dls, lag, nowT) ==
    IF i > Len(confs)
    THEN acc
    ELSE select_loop(select_step(acc, confs[i], dls, lag, nowT), confs, i + 1,
                     dls, lag, nowT)

select_triggered_conferences(tbl, confs, dls, lag, nowT) ==
    select_loop([tbl |-> tbl, triggered |-> <<>>, stamped |-> {}],
                confs, 1, dls, lag, nowT)

(***************************************************************************)
(* The trigger engine as a state machine: the clock advances, and a run    *)
(* reads the feed of the day and selects.                                  *)
(***************************************************************************)
InitTrigger ==
    /\ now = 0
    /\ config_confs = ConfList
    /\ lag_days \in 0..MaxLag
    /\ deadlines = [a \in Acronyms |-> NoDeadline]
    /\ conferences = [k \in ConfKeys |-> NoRow]
    /\ triggered = <<>>
    /\ stamped = {}
    /\ ranAt = NULL
    /\ runs = 0

AdvanceClock ==
    /\ now < MaxNow
    /\ now' = now + 1
    /\ UNCHANGED <<config_confs, lag_days, deadlines, conferences, triggered,
                   stamped, ranAt, runs>>
    /\ UNCHANGED notTrig

\* Pipeline.run up to the selection: load_deadlines, then
\* select_triggered_conferences
RunSelect ==
    /\ runs < MaxRuns
    /\ runs' = runs + 1
    /\ \E dls \in Feeds :
        LET r == select_triggered_conferences(conferences, config_confs, dls,
                                              lag_days, now)
        IN  /\ deadlines' = dls
            /\ conferences' = r.tbl
            /\ triggered' = r.triggered
            /\ stamped' = r.stamped
            /\ ranAt' = now
            /\ UNCHANGED <<now, config_confs, lag_days>>
            /\ UNCHANGED notTrig

\* setup_db.py main: upsert_conference(db_path, conf.name, conf.year) for each
\* configured conference, whose deadline parameter defaults to None
RECURSIVE setup_loop(_, _, _)
setup_loop(tbl, confs, i) ==
    IF i > Len(confs)
    THEN tbl
    ELSE setup_loop(upsert_conference(tbl, confs[i].name, confs[i].year,
                                      NoDeadline),
                    confs, i + 1)

SetupDb ==
    /\ conferences' = setup_loop(conferences, config_confs, 1)
    /\ UNCHANGED <<now, config_confs, lag_days, deadlines, triggered, stamped,
                   ranAt, runs>>
    /\ UNCHANGED notTrig

NextTrigger == AdvanceClock \/ RunSelect \/ SetupDb

(***************************************************************************)
(* collector.py: the adapters' records and collect_papers.                 *)
(***************************************************************************)
MaxPerSource == 1
MaxCollectRuns == 2

\* the titles the adapters may return: empty, two that differ only in
\* case, and another
Titles == {<<>>, <<"a">>, <<"A">>, <<"b">>}

ArxivNone == "None"

SourceNames == {"openreview", "official", "arxiv"}

\* fetch_openreview and fetch_official_site set "arxiv_id": None;
\* search_arxiv sets the entry's id
AdapterArxivId(source) == IF source = "arxiv" THEN "2401.1" ELSE ArxivNone

SeqsUpTo(S, n) == UNION {[1..k -> S] : k \in 0..n}

SourceSets == {f \in [SourceNames -> SeqsUpTo(Titles, MaxPerSource)] : TRUE}

\* the record lists of the three adapters for given title lists
AdapterResults(f) ==
    [src \in SourceNames |->
        [i \in DOMAIN f[src] |->
            [title |-> f[src][i], arxiv_id |-> AdapterArxivId(src)]]]

PriorityLists ==
    { <<>>,
      <<"arxiv", "openreview">>,
      <<"official", "bogus", "official">> }

CollectConf == ConfList[1]

\* paper.update({"conference": conference, "year": year, "source": source})
_normalize(paper, conference, year, source) ==
    [title |-> paper.title, arxiv_id |-> paper.arxiv_id,
     conference |-> conference, year |-> year, source |-> source]

\* conf.source_priority or ["openreview", "official", "arxiv"]
EffectivePriority(prio) ==
    IF prio = <<>> THEN <<"openreview", "official", "arxiv">> ELSE prio

\* the adapter dispatch of collect_papers; an unknown source is skipped
FetchSource(source, srcs) ==
    IF source \in SourceNames THEN srcs[source] ELSE <<>>

title_key_exact(p) == p.title

\* p.get("title", "").lower()
title_key(p) == lower(p.title)

\* the inner loop: for p in normalized
RECURSIVE dedup_loop(_, _, _)
dedup_loop(acc, normalized, i) ==
    IF i > Len(normalized)
    THEN acc
    ELSE LET p == normalized[i]
             k == title_key(p)
         IN  IF k # <<>> /\ k \notin acc.seen_titles
             THEN dedup_loop([seen_titles |-> acc.seen_titles \cup {k},
                              collected |-> Append(acc.collected, p)],
                             normalized, i + 1)
             ELSE dedup_loop(acc, normalized, i + 1)

\* the outer loop: for source in priority
RECURSIVE source_loop(_, _, _, _, _)
source_loop(acc, priority, j, conf, srcs) ==
    IF j > Len(priority)
    THEN acc
    ELSE LET fetched == FetchSource(priority[j], srcs)
             normalized == [i \in DOMAIN fetched |->
                               _normalize(fetched[i], conf.name, conf.year,
                                          priority[j])]
         IN  source_loop(dedup_loop(acc, normalized, 1), priority, j + 1,
                         conf, srcs)

\* The one adapter whose request fails (network failure, non-200 response):
\*   openreview, official - requests.get or raise_for_status raises
\*   arxiv_bozo  - feedparser.parse records the error in the feed it
\*                 returns, which has no entries
\*   arxiv_raise - feedparser.parse raises (an exception it does not
\*                 convert, as http.client.InvalidURL or a dropped
\*                 connection while the response is read)
Outages == {"none", "openreview", "official", "arxiv_bozo", "arxiv_raise"}

\* fetch_openreview: the except clause returns []
fetch_openreview(srcs, out) ==
    IF out = "openreview" THEN <<>> ELSE srcs["openreview"]

\* fetch_official_site: the except clause returns []
fetch_official_site(srcs, out) ==
    IF out = "official" THEN <<>> ELSE srcs["official"]

\* search_arxiv has no try: an exception of feedparser.parse leaves it
SearchArxivRaises(out) == out = "arxiv_raise"

\* search_arxiv when it returns: the records of feed.entries
search_arxiv(srcs, out) ==
    IF out \in {"arxiv_bozo", "arxiv_raise"} THEN <<>> ELSE srcs["arxiv"]

\* what the three adapters return under an outage
AdapterReturns(srcs, out) ==
    [src \in SourceNames |->
        CASE src = "openreview" -> fetch_openreview(srcs, out)
          [] src = "official" -> fetch_official_site(srcs, out)
          [] OTHER -> search_arxiv(srcs, out)]

\* collect_papers catches nothing: it raises when an adapter it calls does
CollectRaises(prio, out) ==
    /\ SearchArxivRaises(out)
    /\ "arxiv" \in Range(EffectivePriority(prio))

collect_papers(conf, prio, srcs) ==
    source_loop([seen_titles |-> {}, collected |-> <<>>],
                EffectivePriority(prio), 1, conf, srcs).collected

(***************************************************************************)
(* db.py: the papers table and insert_papers.                              *)
(***************************************************************************)
\* UNIQUE(conference, year, arxiv_id, title): SQLite takes NULLs to be
\* distinct in a UNIQUE constraint, so a row with a NULL arxiv_id never
\* conflicts
UniqueConflict(row, rec) ==
    /\ row.conference = rec.conference
    /\ row.year = rec.year
    /\ row.title = rec.title
    /\ row.arxiv_id # ArxivNone
    /\ rec.arxiv_id # ArxivNone
    /\ row.arxiv_id = rec.arxiv_id

\* INSERT OR IGNORE INTO papers
RECURSIVE insert_papers(_, _, _)
insert_papers(tbl, records, i) ==
    IF i > Len(records)
    THEN tbl
    ELSE IF \E r \in DOMAIN tbl : UniqueConflict(tbl[r], records[i])
         THEN insert_papers(tbl, records, i + 1)
         ELSE insert_papers(Append(tbl, records[i]), records, i + 1)

(***************************************************************************)
(* The collector as a state machine: the adapters' results are fixed (an   *)
(* unchanged source set) and every pass collects and inserts.              *)
(***************************************************************************)
InitCollect ==
    /\ source_priority \in PriorityLists
    /\ \E f \in SourceSets : sources = AdapterResults(f)
    /\ papers = <<>>
    /\ collected = <<>>
    /\ collectRuns = 0
    /\ outage \in Outages
    /\ collectRaised = FALSE

\* process_conference, step 1: collect_papers, then db.insert_papers; when
\* collect_papers raises, nothing is returned and nothing is inserted
CollectAndInsert ==
    /\ collectRuns < MaxCollectRuns
    /\ IF CollectRaises(source_priority, outage)
       THEN /\ collectRaised' = TRUE
            /\ collected' = <<>>
            /\ UNCHANGED papers
       ELSE LET got == collect_papers(CollectConf, source_priority,
                                      AdapterReturns(sources, outage))
            IN  /\ collectRaised' = FALSE
                /\ collected' = got
                /\ papers' = insert_papers(papers, got, 1)
    /\ collectRuns' = collectRuns + 1
    /\ UNCHANGED <<source_priority, sources, outage>>
    /\ UNCHANGED notColl

(***************************************************************************)
(* code_verifier.py: verify_repo.                                          *)
(*                                                                         *)
(* A timestamp string is absent ("none"), unparseable ("bad") or a         *)
(* datetime ("dt") that is offset-aware or naive; t is its instant in      *)
(* ticks, TicksPerDay ticks to the day.                                    *)
(***************************************************************************)
TicksPerDay == 2
MaxFiles == 1
RecencyDays == 180

NoDate == [kind |-> "none", aware |-> FALSE, t |-> 0]

BadDate == [kind |-> "bad", aware |-> FALSE, t |-> 0]

DateTime(aware, t) == [kind |-> "dt", aware |-> aware, t |-> t]

\* the paper dates verify_repo may be given: none, garbage, and the instant 0
\* with and without a UTC offset
PaperDates == {NoDate, BadDate, DateTime(FALSE, 0), DateTime(TRUE, 0)}

\* distances from the paper date, in ticks: RecencyDays and 200 days, to
\* the day and with a part of a day more, before and after
Offsets ==
    {sgn * (d * TicksPerDay + f) :
        sgn \in {-1, 1}, d \in {RecencyDays, 200}, f \in 0..(TicksPerDay - 1)}

\* the code-hosting API gives timestamps with a trailing Z
CommitDates == {DateTime(TRUE, o) : o \in Offsets}

\* the response to GET /repos/{owner}/{repo}
\*   raise - requests.get raises (timeout, connection error)
\*   none  - status != 200
\*   empty - 200 with an empty JSON object
\*   ok    - 200 with the repository's size and pushed_at
MetaResponses ==
    { [kind |-> "raise", size |-> 0, pushed_at |-> NoDate],
      [kind |-> "none", size |-> 0, pushed_at |-> NoDate],
      [kind |-> "empty", size |-> 0, pushed_at |-> NoDate] }
    \cup [kind : {"ok"}, size : {0, 1},
          pushed_at : {NoDate, DateTime(TRUE, 200 * TicksPerDay)}]

\* the response to GET .../commits: the date fetch_latest_commit_date
\* returns (None on a non-200 status or an empty list), or an exception
CommitResponses ==
    [kind : {"raise"}, date : {NoDate}]
    \cup [kind : {"ok"}, date : {NoDate} \cup CommitDates]

\* names of root-level entries
FileNames ==
    { <<"a", ".", "p", "y">>,
      <<"A", ".", "P", "Y">>,
      <<"p", "y">>,
      <<"a", ".", "p", "y", "b">> }

\* the response to GET .../contents
ContentsResponses ==
    [kind : {"raise", "non200"}, names : {<<>>}]
    \cup [kind : {"ok"}, names : SeqsUpTo(FileNames, MaxFiles)]

allowed_ext ==
    { <<".", "p", "y">>, <<".", "i", "p", "y", "n", "b">>, <<".", "c", "c">>,
      <<".", "c", "p", "p">>, <<".", "c", "u">>, <<".", "j", "s">>,
      <<".", "j", "a", "v", "a">> }

\* str.endswith
endswith(name, ext) ==
    /\ Len(ext) <= Len(name)
    /\ SubSeq(name, Len(name) - Len(ext) + 1, Len(name)) = ext

\* _check_code_files: False on a non-200 status, else whether any listed
\* name, lowercased, ends with an allowed extension
_check_code_files(resp) ==
    /\ resp.kind = "ok"
    /\ \E i \in DOMAIN resp.names :
           \E ext \in allowed_ext : endswith(lower(resp.names[i]), ext)

\* `if not meta`: None and an empty object are both falsy
MetaMissing(meta) == meta.kind # "ok"

Baseline_either(has_code, has_readme) ==
    IF has_code \/ has_readme THEN "Verified" ELSE "Placeholder"

\* status = "Verified" if has_code and has_readme else "Placeholder"
Baseline(has_code, has_readme) ==
    IF has_code /\ has_readme THEN "Verified" ELSE "Placeholder"

\* timedelta.days: the floor of the difference in days
DeltaDays(repo_t, paper_t) == (repo_t - paper_t) \div TicksPerDay

Abs(n) == IF n < 0 THEN -n ELSE n

\* lines 94-101: whether the recency step sets the status to Placeholder.
\* Either fromisoformat may raise, and subtracting an offset-naive from an
\* offset-aware datetime raises TypeError: the except clause then passes.
RecencyDowngrade(paper_date, last_commit) ==
    /\ paper_date.kind # "none"
    /\ last_commit.kind # "none"
    /\ paper_date.kind = "dt"
    /\ last_commit.kind = "dt"
    /\ paper_date.aware = last_commit.aware
    /\ Abs(DeltaDays(last_commit.t, paper_date.t)) > RecencyDays

\* what the LLM step (lines 118-126) makes of run_tool_plan's result, the
\* JSON of its summary call ({} when that call failed twice):
\*   raise   - the reading raises (a call whose "result" is not an object)
\*   flagged - some call of the result has a truthy result.placeholder
\*   clean   - none has
LLMOutcomes == {"raise", "flagged", "clean"}

InitVerify ==
    /\ v_pc = "repos"
    /\ v_calls = <<>>
    /\ v_paper_date \in PaperDates
    /\ v_llm \in BOOLEAN
    /\ v_meta = [kind |-> "none", size |-> 0, pushed_at |-> NoDate]
    /\ v_files = <<>>
    /\ v_has_readme = FALSE
    /\ v_has_code = FALSE
    /\ v_last_commit = NoDate
    /\ v_status = "unset"
    /\ v_recency_fired = FALSE
    /\ v_llm_fired = FALSE
    /\ v_plan = "notrun"
    /\ v_judgment = "notasked"

\* lines 80-87: fetch_repo_metadata and the early return
FetchRepoMetadata ==
    /\ v_pc = "repos"
    /\ \E resp \in MetaResponses :
        /\ v_calls' = Append(v_calls, "repos")
        /\ v_meta' = resp
        /\ IF resp.kind = "raise"
           THEN /\ v_pc' = "raised"
                /\ UNCHANGED <<v_status, v_has_readme>>
           ELSE IF MetaMissing(resp)
           THEN /\ v_pc' = "done"
                /\ v_status' = "None"
                /\ v_has_readme' = FALSE
           ELSE /\ v_pc' = "commits"
                /\ v_has_readme' = (resp.size > 0)
                /\ UNCHANGED v_status
    /\ UNCHANGED <<v_paper_date, v_llm, v_files, v_has_code, v_last_commit,
                   v_recency_fired, v_llm_fired, v_plan, v_judgment>>
    /\ UNCHANGED notVer

\* line 90: fetch_latest_commit_date(...) or meta.get("pushed_at")
FetchLatestCommitDate ==
    /\ v_pc = "commits"
    /\ \E resp \in CommitResponses :
        /\ v_calls' = Append(v_calls, "commits")
        /\ IF resp.kind = "raise"
           THEN /\ v_pc' = "raised"
                /\ UNCHANGED v_last_commit
           ELSE /\ v_pc' = "contents"
                /\ v_last_commit' =
                       IF resp.date.kind # "none" THEN resp.date
                       ELSE v_meta.pushed_at
    /\ UNCHANGED <<v_paper_date, v_llm, v_meta, v_files, v_has_readme,
                   v_has_code, v_status, v_recency_fired, v_llm_fired, v_plan,
                   v_judgment>>
    /\ UNCHANGED notVer

\* lines 91-101: _check_code_files, the baseline status, the recency step
CheckCodeFiles ==
    /\ v_pc = "contents"
    /\ \E resp \in ContentsResponses :
        /\ v_calls' = Append(v_calls, "contents")
        /\ IF resp.kind = "raise"
           THEN /\ v_pc' = "raised"
                /\ UNCHANGED <<v_files, v_has_code, v_status, v_recency_fired>>
           ELSE LET has_code == _check_code_files(resp)
                    fired == RecencyDowngrade(v_paper_date, v_last_commit)
                IN  /\ v_pc' = "readme"
                    /\ v_files' = resp.names
                    /\ v_has_code' = has_code
                    /\ v_recency_fired' = fired
                    /\ v_status' = IF fired THEN "Placeholder"
                                   ELSE Baseline(has_code, v_has_readme)
    /\ UNCHANGED <<v_paper_date, v_llm, v_meta, v_has_readme, v_last_commit,
                   v_llm_fired, v_plan, v_judgment>>
    /\ UNCHANGED notVer

\* lines 103-108: fetch_readme under try/except (any failure gives ""),
\* and the return when there is no LLM client or no readme text
FetchReadme ==
    /\ v_pc = "readme"
    /\ \E readme_text \in {"", "text"} :
        /\ v_calls' = Append(v_calls, "readme")
        /\ v_pc' = IF v_llm /\ readme_text # "" THEN "llm" ELSE "done"
    /\ UNCHANGED <<v_paper_date, v_llm, v_meta, v_files, v_has_readme,
                   v_has_code, v_last_commit, v_status, v_recency_fired,
                   v_llm_fired, v_plan, v_judgment>>
    /\ UNCHANGED notVer

\* llm_mcp.py lines 132-143: what the plan call of run_tool_plan gives
\*   none     - _chat_json gave None or a falsy value: no call is executed
\*   unknown  - a list of calls, none of a registered tool: all skipped
\*   tool     - a list with a call of check_placeholder: its handler runs
\*              check_repo_placeholder
\*   badshape - JSON of another shape (an object, a list of strings):
\*              call.get raises AttributeError, which nothing catches
PlanResponses == {"none", "unknown", "tool", "badshape"}

\* check_repo_placeholder: "true" in result.lower(), False on an exception
Judgments(plan) == IF plan = "tool" THEN {"true", "false"} ELSE {"notasked"}

LLMStatus_verdict(status, outcome) ==
    IF outcome = "flagged" THEN "Placeholder" ELSE "Verified"

\* lines 123-126: status = "Placeholder" if some call of the result has a
\* truthy result.placeholder
LLMStatus(status, outcome) ==
    IF outcome = "flagged" THEN "Placeholder" ELSE status

\* lines 109-133: run_tool_plan (the plan call, the handler's judgment, the
\* summary call) and the reading of its result; the summary is the
\* collaborator's free JSON, so each reading may follow each judgment
LLMStep ==
    /\ v_pc = "llm"
    /\ v_calls' = Append(v_calls, "llm")
    /\ \E plan \in PlanResponses :
        /\ v_plan' = plan
        /\ IF plan = "badshape"
           THEN /\ v_pc' = "raised"
                /\ v_judgment' = "notasked"
                /\ UNCHANGED <<v_llm_fired, v_status>>
           ELSE \E judgment \in Judgments(plan), outcome \in LLMOutcomes :
                /\ v_judgment' = judgment
                /\ v_pc' = IF outcome = "raise" THEN "raised" ELSE "done"
                /\ v_llm_fired' = (outcome = "flagged")
                /\ v_status' = IF outcome = "raise" THEN v_status
                               ELSE LLMStatus(v_status, outcome)
    /\ UNCHANGED <<v_paper_date, v_llm, v_meta, v_files, v_has_readme,
                   v_has_code, v_last_commit, v_recency_fired>>
    /\ UNCHANGED notVer

\* the dict verify_repo returns (when v_pc = "done")
VerifyResult ==
    [status |-> v_status, has_readme |-> v_has_readme,
     has_code |-> v_has_code, last_commit |-> v_last_commit]

(***************************************************************************)
(* workflow.py, llm_mcp.py, db.py: the batch summarization loop.           *)
(***************************************************************************)
MaxBacklog == 3
MaxBatch == 2

\* the cap on collaborator calls in a run of the model
MaxCalls == MaxBacklog + 2

Min(S) == CHOOSE x \in S : \A y \in S : x <= y

\* the first `limit` elements of a set of ids, in id order
RECURSIVE FirstIds(_, _)
FirstIds(S, limit) ==
    IF S = {} \/ limit <= 0
    THEN <<>>
    ELSE <<Min(S)>> \o FirstIds(S \ {Min(S)}, limit - 1)

fetch_papers_without_summary_all(ids, summ, limit) == FirstIds(ids, limit)

\* SELECT ... LEFT JOIN summaries ... WHERE s.id IS NULL AND p.abstract IS
\* NOT NULL LIMIT ?  (every adapter sets abstract to a string, so no paper
\* has a NULL abstract; the scan is in rowid order)
fetch_papers_without_summary(ids, summ, limit) == FirstIds(ids \ summ, limit)

\* INSERT OR REPLACE INTO summaries (paper_id, ...), for each result
save_summaries(summ, results) == summ \cup results

\* a collaborator response to a JSON-mode call
\*   raise     - the chat call raises (transport failure)
\*   malformed - the content is not JSON: json.loads raises
\*   scalar    - the content is JSON but a number, not an array
\*   list      - a JSON array with an entry for each of `ids`
ChatResponses(batch_ids) ==
    [kind : {"raise", "malformed", "scalar"}, ids : {{}}]
    \cup [kind : {"list"}, ids : SUBSET batch_ids]

\* json.loads(content): whether the attempt gives a value
Parses(resp) == resp.kind \in {"scalar", "list"}

MaxAttempts_three == 2 + 1

\* for _ in range(2)
MaxAttempts == 2

\* batch_summarize after _chat_json returned `data`: [] when data is None or
\* empty, else the ids of the entries (the loop over a number raises)
SummarizeResults(ret) ==
    IF ret.kind = "value" /\ ret.val.kind = "list" THEN ret.val.ids ELSE {}

SummarizeRaises(ret) == ret.kind = "value" /\ ret.val.kind = "scalar"

NoResponse == [kind |-> "raise", ids |-> {}]

Pending == [kind |-> "pending", val |-> NoResponse]

ReturnsNone == [kind |-> "none", val |-> NoResponse]

ReturnsValue(resp) == [kind |-> "value", val |-> resp]

InitSummarize ==
    /\ s_pc = "start"
    /\ \E b \in 0..MaxBacklog : s_papers = 1..b
    /\ max_batch_size \in 1..MaxBatch
    /\ summaries = {}
    /\ s_batch = <<>>
    /\ s_attempt = 0
    /\ s_calls = 0
    /\ s_batches = 0
    /\ s_wellformed = TRUE
    /\ cj_responses = <<>>
    /\ cj_ret = Pending

\* workflow.py lines 61-65: the first fetch and the loop test
StartSummarize ==
    /\ s_pc = "start"
    /\ LET batch == fetch_papers_without_summary(s_papers, summaries,
                                                 max_batch_size)
       IN  /\ s_batch' = batch
           /\ s_pc' = IF batch # <<>> THEN "chat" ELSE "done"
           /\ s_batches' = IF batch # <<>> THEN 1 ELSE 0
    /\ UNCHANGED <<s_papers, max_batch_size, summaries, s_attempt, s_calls,
                   s_wellformed, cj_responses, cj_ret>>
    /\ UNCHANGED notSum

\* one attempt of _chat_json (llm_mcp.py lines 41-48) inside
\* batch_summarize; when _chat_json returns, the rest of batch_summarize,
\* save_summaries, the next fetch and the loop test (workflow.py 66-70)
ChatAttempt ==
    /\ s_pc = "chat"
    /\ s_calls < MaxCalls
    /\ \E resp \in ChatResponses(Range(s_batch)) :
        LET responses == IF s_attempt = 0 THEN <<resp>>
                         ELSE Append(cj_responses, resp)
            returns == Parses(resp) \/ s_attempt + 1 >= MaxAttempts
            ret == IF Parses(resp) THEN ReturnsValue(resp) ELSE ReturnsNone
            saved == save_summaries(summaries, SummarizeResults(ret))
            batch == fetch_papers_without_summary(s_papers, saved,
                                                  max_batch_size)
        IN  /\ s_calls' = s_calls + 1
            /\ cj_responses' = responses
            /\ s_wellformed' =
                   (s_wellformed /\ resp.kind = "list"
                        /\ resp.ids = Range(s_batch))
            /\ IF ~returns
               THEN /\ s_attempt' = s_attempt + 1
                    /\ cj_ret' = Pending
                    /\ UNCHANGED <<s_pc, summaries, s_batch, s_batches>>
               ELSE IF SummarizeRaises(ret)
               THEN /\ s_attempt' = 0
                    /\ cj_ret' = ret
                    /\ s_pc' = "raised"
                    /\ UNCHANGED <<summaries, s_batch, s_batches>>
               ELSE /\ s_attempt' = 0
                    /\ cj_ret' = ret
                    /\ summaries' = saved
                    /\ s_batch' = batch
                    /\ s_pc' = IF batch # <<>> THEN "chat" ELSE "done"
                    /\ s_batches' = IF batch # <<>> THEN s_batches + 1
                                    ELSE s_batches
    /\ UNCHANGED <<s_papers, max_batch_size>>
    /\ UNCHANGED notSum

NextSummarize == StartSummarize \/ ChatAttempt

(***************************************************************************)
(* db.py: the clusters table and save_clusters.                            *)
(***************************************************************************)
MaxAssign == 1

\* the (conference, year) scopes clustered: one conference, two years
ClusterScopes == {<<ConfList[1].name, 1>>, <<ConfList[1].name, 2>>}

\* a label of "NULL" is the None that item.get("label", ...) gives for a
\* JSON null
Labels == {"x", "y", "NULL"}

\* the assignment lists of the model: every list of non-NULL labels, and
\* one that holds a NULL label
Assignments ==
    SeqsUpTo([paper_id : 1..2, label : Labels \ {"NULL"}], MaxAssign)
    \cup {<<[paper_id |-> 1, label |-> "NULL"]>>}

ScopeOf(row) == <<row.conference, row.year>>

DeleteScope_conference(tbl, conference, year) ==
    SelectSeq(tbl, LAMBDA row : row.conference # conference)

\* DELETE FROM clusters WHERE conference=? AND year=?
DeleteScope(tbl, conference, year) ==
    SelectSeq(tbl, LAMBDA row : ScopeOf(row) # <<conference, year>>)

ClusterRows(conference, year, assignments) ==
    [i \in DOMAIN assignments |->
        [conference |-> conference, year |-> year,
         label |-> assignments[i].label, paper_id |-> assignments[i].paper_id]]

\* label TEXT NOT NULL: the INSERT of a NULL label raises IntegrityError
ViolatesNotNull(assignments) ==
    \E i \in DOMAIN assignments : assignments[i].label = "NULL"

\* the DELETE and the INSERTs are one transaction (get_conn commits at the
\* end of the block); an exception closes the connection uncommitted
save_clusters(tbl, conference, year, assignments) ==
    IF ViolatesNotNull(assignments)
    THEN tbl
    ELSE DeleteScope(tbl, conference, year)
             \o ClusterRows(conference, year, assignments)

RowsOfScope(tbl, scope) == SelectSeq(tbl, LAMBDA row : ScopeOf(row) = scope)

InitCluster ==
    /\ clusters = <<>>
    /\ c_args = [scope |-> <<ConfList[1].name, 1>>, assignments |-> <<>>]
    /\ c_raised = FALSE
    /\ c_replaced = FALSE

\* workflow.py line 75: db.save_clusters(self.db_path, name, year, clusters)
SaveClusters ==
    \E scope \in ClusterScopes, assignments \in Assignments :
        /\ clusters' = save_clusters(clusters, scope[1], scope[2], assignments)
        /\ c_args' = [scope |-> scope, assignments |-> assignments]
        /\ c_raised' = ViolatesNotNull(assignments)
        /\ c_replaced' =
               /\ ~ViolatesNotNull(assignments)
               /\ RowsOfScope(clusters, scope) # <<>>
               /\ RowsOfScope(clusters, scope)
                      # ClusterRows(scope[1], scope[2], assignments)
        /\ UNCHANGED notClu

NextCluster == SaveClusters

(***************************************************************************)
(* db.py: the code_links table and save_code_link.                         *)
(***************************************************************************)
\* the (paper, url) pairs of the model: two urls of one paper, and one of
\* them for another paper too
LinkPairs == {<<1, "u">>, <<1, "v">>, <<2, "u">>}

\* results of verify_repo: the None verdict, a Verified one and two
\* Placeholder ones
Verdicts ==
    { [status |-> "None", has_readme |-> FALSE, has_code |-> FALSE,
       last_commit |-> NoDate],
      [status |-> "Verified", has_readme |-> TRUE, has_code |-> TRUE,
       last_commit |-> DateTime(TRUE, 200 * TicksPerDay)],
      [status |-> "Placeholder", has_readme |-> TRUE, has_code |-> FALSE,
       last_commit |-> DateTime(TRUE, 200 * TicksPerDay)],
      [status |-> "Placeholder", has_readme |-> FALSE, has_code |-> TRUE,
       last_commit |-> NoDate] }

\* int(has_readme), int(has_code)
int(b) == IF b THEN 1 ELSE 0

\* the row of VALUES (?, ?, ?, ?, ?, ?)
CodeLinkRow(paper_id, url, result) ==
    [paper_id |-> paper_id, url |-> url, status |-> result.status,
     last_commit |-> result.last_commit,
     has_readme |-> int(result.has_readme), has_code |-> int(result.has_code)]

\* UNIQUE(paper_id, url)
LinkConflict(row, paper_id, url) == row.paper_id = paper_id /\ row.url = url

save_code_link_ignore(tbl, paper_id, url, result) ==
    IF \E r \in DOMAIN tbl : LinkConflict(tbl[r], paper_id, url)
    THEN tbl
    ELSE Append(tbl, CodeLinkRow(paper_id, url, result))

\* INSERT OR REPLACE INTO code_links: the rows that conflict on
\* UNIQUE(paper_id, url) are deleted and the new row is inserted
save_code_link(tbl, paper_id, url, result) ==
    Append(SelectSeq(tbl, LAMBDA row : ~LinkConflict(row, paper_id, url)),
           CodeLinkRow(paper_id, url, result))

RowsOfPair(tbl, pair) ==
    SelectSeq(tbl, LAMBDA row : LinkConflict(row, pair[1], pair[2]))

InitLinks ==
    /\ code_links = <<>>
    /\ cl_args = [pair |-> <<1, "u">>,
                  result |-> [status |-> "None", has_readme |-> FALSE,
                              has_code |-> FALSE, last_commit |-> NoDate]]
    /\ cl_replaced = FALSE

\* workflow.py lines 88-96: db.save_code_link(db_path, paper["id"], link,
\* result["status"], result["last_commit"], result["has_readme"],
\* result["has_code"])
SaveCodeLink ==
    \E pair \in LinkPairs, result \in Verdicts :
        /\ code_links' = save_code_link(code_links, pair[1], pair[2], result)
        /\ cl_args' = [pair |-> pair, result |-> result]
        /\ cl_replaced' =
               /\ RowsOfPair(code_links, pair) # <<>>
               /\ RowsOfPair(code_links, pair)
                      # <<CodeLinkRow(pair[1], pair[2], result)>>
        /\ UNCHANGED notLink

NextLinks == SaveCodeLink

(***************************************************************************)
(* workflow.py lines 81-96: verify_repo as process_conference calls it,    *)
(* and the verdict it persists.                                            *)
(***************************************************************************)
\* db.py line 31, created_at DATETIME DEFAULT CURRENT_TIMESTAMP: insert_papers
\* names no created_at, so SQLite stores the UTC time of the insertion as
\* 'YYYY-MM-DD HH:MM:SS', without an offset, and fetch_papers returns that
\* string; the paper of the model was inserted at the instant 0
created_at == DateTime(FALSE, 0)

\* the link process_conference is verifying
WiredLink == <<1, "u">>

\* workflow.py lines 87-96: the call was the one process_conference makes,
\* verify_repo(link, token, llm, paper.get("created_at")), and its result
\* is persisted with save_code_link
SaveVerdict ==
    /\ v_pc = "done"
    /\ v_paper_date = created_at
    /\ v_pc' = "saved"
    /\ code_links' = save_code_link(code_links, WiredLink[1], WiredLink[2],
                                    VerifyResult)
    /\ cl_args' = [pair |-> WiredLink, result |-> VerifyResult]
    /\ cl_replaced' = (RowsOfPair(code_links, WiredLink) # <<>>)
    /\ UNCHANGED <<v_calls, v_paper_date, v_llm, v_meta, v_files, v_has_readme,
                   v_has_code, v_last_commit, v_status, v_recency_fired,
                   v_llm_fired, v_plan, v_judgment>>
    /\ UNCHANGED notVerLink

NextVerify ==
    \/ FetchRepoMetadata
    \/ FetchLatestCommitDate
    \/ CheckCodeFiles
    \/ FetchReadme
    \/ LLMStep
    \/ SaveVerdict

(***************************************************************************)
(* workflow.py: one pipeline run.  The stages are those modelled above;    *)
(* here each is a step with the outcomes it can have: it returns, or an    *)
(* exception leaves it.                                                    *)
(***************************************************************************)
\* the triggered lists of the model, as positions in the configuration
TriggeredLists == {<<>>, <<1>>, <<3>>, <<1, 2>>, <<2, 3>>}

\* the candidate links of each configured conference, paper by paper
\* (workflow.py lines 82-86); the third conference has no paper
PipelineLinks ==
    << << <<1, "u">>, <<1, "v">> >>,
       << <<2, "u">> >>,
       << >> >>

\* whether fetch_papers gives any paper of the conference
HasPapers(conf) == PipelineLinks[conf] # <<>>

\* os.environ.get(key): the variable is not set, is "", or holds a key
KeyValues == {"missing", "empty", "set"}

\* get_env_or_raise: raises EnvironmentError `if not value`
get_env_or_raise(key) == [raised |-> key # "set", value |-> key]

LLMClientOf_any(key, ctor_raises) == TRUE

\* Pipeline.__init__ lines 26-32: the client, or None when
\* get_env_or_raise or the LLMClient constructor raised
LLMClientOf(key, ctor_raises) ==
    ~get_env_or_raise(key).raised /\ ~ctor_raises

StageAfter_swapped(stage, llm) ==
    CASE stage = "collect" -> IF llm THEN "summarize" ELSE "verify"
      [] stage = "summarize" -> "trend"
      [] stage = "trend" -> "cluster"
      [] OTHER -> "verify"

\* process_conference: the stage that follows a stage; lines 61 and 72
\* skip the three enrichment stages when there is no client
StageAfter(stage, llm) ==
    CASE stage = "collect" -> IF llm THEN "summarize" ELSE "verify"
      [] stage = "summarize" -> "cluster"
      [] stage = "cluster" -> "trend"
      [] OTHER -> "verify"

Event(conf, stage) == [conf |-> conf, stage |-> stage]

\* the conference being processed
CurrentConf == p_triggered[p_idx]

\* an exception leaves process_conference and run: nothing catches it
Abort(failure) ==
    /\ p_pc' = "aborted"
    /\ p_failure' = failure

InitPipeline ==
    /\ p_pc = "new"
    /\ p_key = "missing"
    /\ p_llm = FALSE
    /\ p_triggered = <<>>
    /\ p_idx = 0
    /\ p_vidx = 0
    /\ p_log = <<>>
    /\ p_writes = {}
    /\ p_collab = {}
    /\ p_failure = "none"

\* Pipeline.__init__
Construct ==
    /\ p_pc = "new"
    /\ \E key \in KeyValues, ctor_raises \in BOOLEAN :
        /\ p_key' = key
        /\ p_llm' = LLMClientOf(key, ctor_raises)
    /\ p_pc' = "run"
    /\ UNCHANGED <<p_triggered, p_idx, p_vidx, p_log, p_writes, p_collab,
                   p_failure>>
    /\ UNCHANGED <<linkVars, notPipe>>

\* Pipeline.run lines 40-51: the selection and the entry of the loop
Run ==
    /\ p_pc = "run"
    /\ \E t \in TriggeredLists :
        /\ p_triggered' = t
        /\ p_idx' = IF t = <<>> THEN 0 ELSE 1
        /\ p_pc' = IF t = <<>> THEN "render" ELSE "collect"
    /\ UNCHANGED <<p_key, p_llm, p_vidx, p_log, p_writes, p_collab, p_failure>>
    /\ UNCHANGED <<linkVars, notPipe>>

\* process_conference lines 57-59: collect_papers (which raises when
\* search_arxiv does) and insert_papers
Collect ==
    /\ p_pc = "collect"
    /\ p_log' = Append(p_log, Event(CurrentConf, "collect"))
    /\ \E raises \in BOOLEAN :
        IF raises
        THEN /\ Abort("collect")
             /\ UNCHANGED p_writes
        ELSE /\ p_pc' = StageAfter("collect", p_llm)
             /\ p_writes' = IF HasPapers(CurrentConf)
                            THEN p_writes \cup {<<CurrentConf, "papers">>}
                            ELSE p_writes
             /\ UNCHANGED p_failure
    /\ UNCHANGED <<p_key, p_llm, p_triggered, p_idx, p_vidx, p_collab>>
    /\ UNCHANGED <<linkVars, notPipe>>

\* lines 61-70: the summarization loop, when it ends
\*   nobacklog - the first fetch is empty: no call
\*   saved     - calls were made and summaries saved
\*   raise     - batch_summarize raised (a non-empty JSON number)
Summarize ==
    /\ p_pc = "summarize"
    /\ p_llm
    /\ p_log' = Append(p_log, Event(CurrentConf, "summarize"))
    /\ \E out \in IF HasPapers(CurrentConf)
                   THEN {"nobacklog", "saved", "raise"}
                   ELSE {"nobacklog"} :
        /\ p_collab' = IF out = "nobacklog" THEN p_collab
                       ELSE p_collab \cup {<<CurrentConf, "summarize">>}
        /\ IF out = "raise"
           THEN /\ Abort("summarize")
                /\ UNCHANGED p_writes
           ELSE /\ p_pc' = StageAfter("summarize", p_llm)
                /\ p_writes' = IF out = "saved"
                               THEN p_writes \cup {<<CurrentConf, "summaries">>}
                               ELSE p_writes
                /\ UNCHANGED p_failure
    /\ UNCHANGED <<p_key, p_llm, p_triggered, p_idx, p_vidx>>
    /\ UNCHANGED <<linkVars, notPipe>>

\* lines 73-75: cluster_papers and save_clusters
\*   nopapers - no paper: [] without a call
\*   unusable - two failed attempts (or a falsy value): [] is saved
\*   list     - a list of {id, label}: the assignments are saved
\*   raise    - JSON of another shape (an object, a number, a non-numeric
\*              id: cluster_papers raises) or a null label (save_clusters
\*              raises IntegrityError)
Cluster ==
    /\ p_pc = "cluster"
    /\ p_log' = Append(p_log, Event(CurrentConf, "cluster"))
    /\ \E out \in IF HasPapers(CurrentConf)
                   THEN {"unusable", "list", "raise"}
                   ELSE {"nopapers"} :
        /\ p_collab' = IF out = "nopapers" THEN p_collab
                       ELSE p_collab \cup {<<CurrentConf, "cluster">>}
        /\ IF out = "raise"
           THEN /\ Abort("cluster")
                /\ UNCHANGED p_writes
           ELSE /\ p_pc' = StageAfter("cluster", p_llm)
                /\ p_writes' = IF out = "list"
                               THEN p_writes \cup {<<CurrentConf, "clusters">>}
                               ELSE p_writes
                /\ UNCHANGED p_failure
    /\ UNCHANGED <<p_key, p_llm, p_triggered, p_idx, p_vidx>>
    /\ UNCHANGED <<linkVars, notPipe>>

\* lines 76-79: fetch_cluster_counts, summarize_trend (None without a call
\* when there is no cluster; None when the call raises) and save_trend
Trend ==
    /\ p_pc = "trend"
    /\ p_log' = Append(p_log, Event(CurrentConf, "trend"))
    /\ \E out \in IF <<CurrentConf, "clusters">> \in p_writes
                   THEN {"text", "none"}
                   ELSE {"noclusters"} :
        /\ p_collab' = IF out = "noclusters" THEN p_collab
                       ELSE p_collab \cup {<<CurrentConf, "trend">>}
        /\ p_writes' = IF out = "text"
                       THEN p_writes \cup {<<CurrentConf, "trends">>}
                       ELSE p_writes
    /\ p_pc' = StageAfter("trend", p_llm)
    /\ UNCHANGED <<p_key, p_llm, p_triggered, p_idx, p_vidx, p_failure>>
    /\ UNCHANGED <<linkVars, notPipe>>

\* line 81: all_papers = db.fetch_papers(...), the entry of the loops
StartVerify ==
    /\ p_pc = "verify"
    /\ p_log' = Append(p_log, Event(CurrentConf, "verify"))
    /\ p_vidx' = 1
    /\ p_pc' = "links"
    /\ UNCHANGED <<p_key, p_llm, p_triggered, p_idx, p_writes, p_collab,
                   p_failure>>
    /\ UNCHANGED <<linkVars, notPipe>>

\* lines 86-96: verify_repo on one link, then save_code_link
\*   transport - a requests call of verify_repo raised
\*   llm       - run_tool_plan or the reading of its result raised
\*   result    - verify_repo returned; its LLM step ran only with a client
VerifyLink ==
    /\ p_pc = "links"
    /\ p_vidx <= Len(PipelineLinks[CurrentConf])
    /\ LET link == PipelineLinks[CurrentConf][p_vidx]
       IN  \/ /\ Abort("verify")
              /\ UNCHANGED <<p_vidx, p_writes, p_collab, linkVars>>
           \/ /\ p_llm
              /\ Abort("verify_llm")
              /\ p_collab' = p_collab \cup {<<CurrentConf, "verify">>}
              /\ UNCHANGED <<p_vidx, p_writes, linkVars>>
           \/ \E result \in Verdicts, llm_step \in BOOLEAN :
              /\ llm_step => (p_llm /\ result.status # "None")
              /\ code_links' = save_code_link(code_links, link[1], link[2],
                                              result)
              /\ cl_args' = [pair |-> link, result |-> result]
              /\ cl_replaced' = (RowsOfPair(code_links, link) # <<>>)
              /\ p_writes' = p_writes \cup {<<CurrentConf, "code_links">>}
              /\ p_collab' = IF llm_step
                             THEN p_collab \cup {<<CurrentConf, "verify">>}
                             ELSE p_collab
              /\ p_vidx' = p_vidx + 1
              /\ UNCHANGED <<p_pc, p_failure>>
    /\ UNCHANGED <<p_key, p_llm, p_triggered, p_idx, p_log>>
    /\ UNCHANGED notPipe

\* the end of process_conference: the next conference of run's loop, or
\* render_site after the last
EndConference ==
    /\ p_pc = "links"
    /\ p_vidx > Len(PipelineLinks[CurrentConf])
    /\ IF p_idx < Len(p_triggered)
       THEN /\ p_idx' = p_idx + 1
            /\ p_pc' = "collect"
       ELSE /\ p_pc' = "render"
            /\ UNCHANGED p_idx
    /\ UNCHANGED <<p_key, p_llm, p_triggered, p_vidx, p_log, p_writes,
                   p_collab, p_failure>>
    /\ UNCHANGED <<linkVars, notPipe>>

\* Pipeline.run line 52: render_site
RenderSite ==
    /\ p_pc = "render"
    /\ p_log' = Append(p_log, Event(0, "render"))
    /\ p_pc' = "done"
    /\ UNCHANGED <<p_key, p_llm, p_triggered, p_idx, p_vidx, p_writes,
                   p_collab, p_failure>>
    /\ UNCHANGED <<linkVars, notPipe>>

NextPipeline ==
    \/ Construct
    \/ Run
    \/ Collect
    \/ Summarize
    \/ Cluster
    \/ Trend
    \/ StartVerify
    \/ VerifyLink
    \/ EndConference
    \/ RenderSite

(***************************************************************************)
(* workflow.py lines 72-79, llm_mcp.py, db.py: the clustering-and-trend    *)
(* block of process_conference, pass after pass, and the trends table.     *)
(***************************************************************************)
\* fetch_cluster_counts: SELECT label, COUNT(*) FROM clusters WHERE
\* conference=? AND year=? GROUP BY label, as a set of <<label, count>>
fetch_cluster_counts(tbl, conference, year) ==
    LET rows == RowsOfScope(tbl, <<conference, year>>)
        labels == {rows[i].label : i \in DOMAIN rows}
    IN  {<<l, Cardinality({i \in DOMAIN rows : rows[i].label = l})>> :
            l \in labels}

\* what self._chat gives summarize_trend: an exception, a message without
\* content (None), the empty string, or one of two texts
TrendResponses == {"raise", "nocontent", "", "s", "t"}

\* summarize_trend returned None
NoTrend == [kind |-> "none", body |-> "", of |-> {}]

\* summarize_trend was not called: the pass raised before line 77
TrendNotRun == [kind |-> "notrun", body |-> "", of |-> {}]

\* the text the collaborator wrote for the payload `counts`
TrendText(body, counts) == [kind |-> "text", body |-> body, of |-> counts]

\* summarize_trend: None without a call when there is no cluster, None
\* when the call raises, else the content of the message
summarize_trend(cluster_counts, resp) ==
    IF cluster_counts = {} THEN NoTrend
    ELSE IF resp \in {"raise", "nocontent"} THEN NoTrend
    ELSE TrendText(resp, cluster_counts)

\* line 78, `if trend`: None and "" are falsy
Truthy(trend) == trend.kind = "text" /\ trend.body # ""

TrendRow(conference, year, summary) ==
    [conference |-> conference, year |-> year, summary |-> summary]

\* INSERT OR REPLACE INTO trends on UNIQUE(conference, year): the row in
\* conflict is deleted and the new row inserted
save_trend(tbl, conference, year, summary) ==
    SelectSeq(tbl, LAMBDA row : ScopeOf(row) # <<conference, year>>)
        \o <<TrendRow(conference, year, summary)>>

TrendsOfScope(tbl, scope) == SelectSeq(tbl, LAMBDA row : ScopeOf(row) = scope)

\* what cluster_papers returns in the passes of the model: [] (no paper,
\* or two failed parse attempts), one or two assignments, and a list
\* with a null label
PassAssignments ==
    { <<>>,
      <<[paper_id |-> 1, label |-> "x"]>>,
      <<[paper_id |-> 1, label |-> "y"]>>,
      <<[paper_id |-> 1, label |-> "x"], [paper_id |-> 2, label |-> "x"]>>,
      <<[paper_id |-> 1, label |-> "NULL"]>> }

InitTrend ==
    /\ trends = <<>>
    /\ t_trend = TrendNotRun
    /\ t_saved = FALSE

\* lines 72-79 with a client: cluster_papers, save_clusters,
\* fetch_cluster_counts, summarize_trend and, `if trend`, save_trend.
\* An exception of save_clusters leaves process_conference.
ClusterAndTrend ==
    \E scope \in ClusterScopes, assignments \in PassAssignments,
       resp \in TrendResponses :
        LET raised == ViolatesNotNull(assignments)
            saved == save_clusters(clusters, scope[1], scope[2], assignments)
            cluster_counts == fetch_cluster_counts(saved, scope[1], scope[2])
            trend == summarize_trend(cluster_counts, resp)
        IN  /\ clusters' = saved
            /\ c_args' = [scope |-> scope, assignments |-> assignments]
            /\ c_raised' = raised
            /\ c_replaced' =
                   /\ ~raised
                   /\ RowsOfScope(clusters, scope) # <<>>
                   /\ RowsOfScope(clusters, scope)
                          # ClusterRows(scope[1], scope[2], assignments)
            /\ IF raised
               THEN /\ t_trend' = TrendNotRun
                    /\ t_saved' = FALSE
                    /\ UNCHANGED trends
               ELSE /\ t_trend' = trend
                    /\ t_saved' = Truthy(trend)
                    /\ trends' = IF Truthy(trend)
                                 THEN save_trend(trends, scope[1], scope[2],
                                                 trend)
                                 ELSE trends
            /\ UNCHANGED notTrend

NextTrend == ClusterAndTrend

(***************************************************************************)
(* The specifications, one for each part.                                  *)
(***************************************************************************)
vars ==
    <<trigVars, collVars, verVars, sumVars, cluVars, linkVars, pipeVars,
      trendVars>>

IdleTrigger ==
    /\ now = 0
    /\ config_confs = ConfList
    /\ lag_days = 0
    /\ deadlines = [a \in Acronyms |-> NoDeadline]
    /\ conferences = [k \in ConfKeys |-> NoRow]
    /\ triggered = <<>>
    /\ stamped = {}
    /\ ranAt = NULL
    /\ runs = 0

IdleCollect ==
    /\ source_priority = <<>>
    /\ sources = [src \in SourceNames |-> <<>>]
    /\ papers = <<>>
    /\ collected = <<>>
    /\ collectRuns = 0
    /\ outage = "none"
    /\ collectRaised = FALSE

IdleVerify ==
    /\ v_pc = "idle"
    /\ v_calls = <<>>
    /\ v_paper_date = NoDate
    /\ v_llm = FALSE
    /\ v_meta = [kind |-> "none", size |-> 0, pushed_at |-> NoDate]
    /\ v_files = <<>>
    /\ v_has_readme = FALSE
    /\ v_has_code = FALSE
    /\ v_last_commit = NoDate
    /\ v_status = "unset"
    /\ v_recency_fired = FALSE
    /\ v_llm_fired = FALSE
    /\ v_plan = "notrun"
    /\ v_judgment = "notasked"

IdleSummarize ==
    /\ s_pc = "idle"
    /\ s_papers = {}
    /\ max_batch_size = 1
    /\ summaries = {}
    /\ s_batch = <<>>
    /\ s_attempt = 0
    /\ s_calls = 0
    /\ s_batches = 0
    /\ s_wellformed = TRUE
    /\ cj_responses = <<>>
    /\ cj_ret = Pending

IdleCluster == InitCluster

IdleLinks == InitLinks

IdlePipeline == InitPipeline

IdleTrend == InitTrend

IdleEnrich ==
    IdleSummarize /\ IdleCluster /\ IdleLinks /\ IdlePipeline /\ IdleTrend

InitSpecTrigger == InitTrigger /\ IdleCollect /\ IdleVerify /\ IdleEnrich

SpecTrigger == InitSpecTrigger /\ [][NextTrigger]_vars

InitSpecCollect == InitCollect /\ IdleTrigger /\ IdleVerify /\ IdleEnrich

NextCollect == CollectAndInsert

SpecCollect == InitSpecCollect /\ [][NextCollect]_vars

InitSpecVerify == InitVerify /\ IdleTrigger /\ IdleCollect /\ IdleEnrich

SpecVerify == InitSpecVerify /\ [][NextVerify]_vars

InitSpecSummarize ==
    /\ InitSummarize
    /\ IdleTrigger /\ IdleCollect /\ IdleVerify /\ IdleCluster /\ IdleLinks
    /\ IdlePipeline /\ IdleTrend

SpecSummarize == InitSpecSummarize /\ [][NextSummarize]_vars

InitSpecCluster ==
    /\ InitCluster
    /\ IdleTrigger /\ IdleCollect /\ IdleVerify /\ IdleSummarize /\ IdleLinks
    /\ IdlePipeline /\ IdleTrend

SpecCluster == InitSpecCluster /\ [][NextCluster]_vars

InitSpecLinks ==
    /\ InitLinks
    /\ IdleTrigger /\ IdleCollect /\ IdleVerify /\ IdleSummarize /\ IdleCluster
    /\ IdlePipeline /\ IdleTrend

SpecLinks == InitSpecLinks /\ [][NextLinks]_vars

InitSpecPipeline ==
    /\ InitPipeline
    /\ IdleTrigger /\ IdleCollect /\ IdleVerify /\ IdleSummarize /\ IdleCluster
    /\ IdleLinks /\ IdleTrend

SpecPipeline == InitSpecPipeline /\ [][NextPipeline]_vars

InitSpecTrend ==
    /\ InitTrend
    /\ IdleTrigger /\ IdleCollect /\ IdleVerify /\ IdleSummarize /\ IdleCluster
    /\ IdleLinks /\ IdlePipeline

SpecTrend == InitSpecTrend /\ [][NextTrend]_vars

(***************************************************************************)
(* Properties of the trigger engine (SpecTrigger).                         *)
(***************************************************************************)

\* C1: after a run of select_triggered_conferences at day `today` with lag
\* L, a configured conference whose feed deadline parses to the date D is
\* in the returned list if and only if today >= D + L, and its
\* triggered_at was written by that run (to the time of the run) if and
\* only if today >= D + L.
C1_ActivationIff ==
    ranAt # NULL =>
        \A i \in DOMAIN config_confs :
            LET conf == config_confs[i]
                d == deadlines[upper(conf.name)]
                due == ranAt >= d.day + lag_days
            IN  d.kind = "iso" =>
                    /\ (conf \in Range(triggered)) <=> due
                    /\ (ConfKey(conf) \in stamped) <=> due
                    /\ due => conferences[ConfKey(conf)].triggered_at = ranAt

\* C1's case: in one run a conference is selected on the very day D + L and
\* another, a day short of its D + L, is not.
C1_Witness ==
    /\ ranAt # NULL
    /\ \E i, j \in DOMAIN config_confs :
        LET ci == config_confs[i]
            cj == config_confs[j]
            di == deadlines[upper(ci.name)]
            dj == deadlines[upper(cj.name)]
        IN  /\ di.kind = "iso" /\ dj.kind = "iso"
            /\ ranAt = di.day + lag_days
            /\ ci \in Range(triggered)
            /\ conferences[ConfKey(ci)].triggered_at = ranAt
            /\ ranAt = dj.day + lag_days - 1
            /\ cj \notin Range(triggered)
            /\ ConfKey(cj) \notin stamped

\* C10: the triggered_at of a conference (name, year) is written at most
\* once: once it is set, no later step changes it.
C10_TriggeredAtWrittenOnce ==
    [][\A k \in ConfKeys :
          conferences[k].triggered_at # NULL =>
              conferences'[k].triggered_at = conferences[k].triggered_at]_vars

\* C11: after every run of select_triggered_conferences, every configured
\* conference has a row whose deadline is the one the feed of that run gives
\* for its acronym (no deadline when the feed has none), whatever the row
\* held before.
C11_DeadlineFresh ==
    ranAt # NULL =>
        \A i \in DOMAIN config_confs :
            LET conf == config_confs[i]
            IN  /\ conferences[ConfKey(conf)].present
                /\ conferences[ConfKey(conf)].deadline
                       = deadlines[upper(conf.name)]

\* what the code does for C11: after a run every configured conference has
\* a row, and no step changes the deadline of a row that exists
C11_DeadlineAsCoded ==
    [][/\ (ranAt' # NULL => (\A k \in ConfKeys : conferences'[k].present))
        /\ (\A h \in ConfKeys :
               conferences[h].present =>
                   /\ conferences'[h].present
                   /\ conferences'[h].deadline = conferences[h].deadline)]_vars

\* whether the feed value of a conference is unusable: no entry, or a value
\* the parse rejects
C12_Unusable(conf) == deadlines[upper(conf.name)].kind \in {"none", "malformed"}

\* whether the last run found the conference due
C12_Due(conf) ==
    /\ deadlines[upper(conf.name)].kind = "iso"
    /\ ranAt >= deadlines[upper(conf.name)].day + lag_days

\* C12: after a run, a configured conference with no deadline or with a
\* malformed one has a row, is not in the returned list and was not
\* stamped by the run (its triggered_at is what it was before it); and the
\* returned list is exactly the due conferences, in configuration order,
\* as if the unusable ones were not configured.
C12_UnusableDeadlineSkipped ==
    [][runs' = runs + 1 =>
          /\ \A i \in DOMAIN config_confs :
                LET conf == config_confs[i]
                IN  C12_Unusable(conf)' =>
                        /\ conferences'[ConfKey(conf)].present
                        /\ conf \notin Range(triggered')
                        /\ ConfKey(conf) \notin stamped'
                        /\ conferences'[ConfKey(conf)].triggered_at
                               = conferences[ConfKey(conf)].triggered_at
          /\ triggered' = SelectSeq(config_confs, LAMBDA c : C12_Due(c)')]_vars

\* C12's case: in one run a conference with a malformed deadline is
\* registered and skipped, and a conference configured after it is returned
\* and stamped.
C12_Witness ==
    /\ ranAt # NULL
    /\ \E i, j \in DOMAIN config_confs :
        /\ i < j
        /\ deadlines[upper(config_confs[i].name)].kind = "malformed"
        /\ conferences[ConfKey(config_confs[i])].present
        /\ conferences[ConfKey(config_confs[i])].triggered_at = NULL
        /\ config_confs[i] \notin Range(triggered)
        /\ config_confs[j] \in Range(triggered)
        /\ conferences[ConfKey(config_confs[j])].triggered_at = ranAt

(***************************************************************************)
(* Properties of the collector and the papers table (SpecCollect).         *)
(***************************************************************************)

\* the normalized records the adapters returned, in source priority order,
\* then in within-source order
RECURSIVE PriorityStream(_, _)
PriorityStream(priority, j) ==
    IF j > Len(priority)
    THEN <<>>
    ELSE LET fetched == FetchSource(priority[j],
                                    AdapterReturns(sources, outage))
         IN  [i \in DOMAIN fetched |->
                 _normalize(fetched[i], CollectConf.name, CollectConf.year,
                            priority[j])]
             \o PriorityStream(priority, j + 1)

C3_RerunAddsNoRows ==
    [][collectRuns >= 1 => papers' = papers]_vars

\* C3 holds of the records that carry an arxiv_id: a second pass adds none
\* of them again.
C3_ArxivRowsNotDuplicated ==
    \A i, j \in DOMAIN papers :
        (i # j /\ papers[i].arxiv_id # ArxivNone /\ papers[j].arxiv_id # ArxivNone)
            => ~(/\ papers[i].title = papers[j].title
                 /\ papers[i].arxiv_id = papers[j].arxiv_id)

\* the adapter an outage is of
C13_Failed(out) ==
    CASE out = "openreview" -> {"openreview"}
      [] out = "official" -> {"official"}
      [] out \in {"arxiv_bozo", "arxiv_raise"} -> {"arxiv"}
      [] OTHER -> {}

\* the normalized records of the adapters that did not fail, in source
\* priority order
RECURSIVE C13_OtherStream(_, _)
C13_OtherStream(priority, j) ==
    IF j > Len(priority)
    THEN <<>>
    ELSE LET fetched == IF priority[j] \in SourceNames \ C13_Failed(outage)
                        THEN sources[priority[j]]
                        ELSE <<>>
         IN  [i \in DOMAIN fetched |->
                 _normalize(fetched[i], CollectConf.name, CollectConf.year,
                            priority[j])]
             \o C13_OtherStream(priority, j + 1)

\* whether `got` is the deduplication of the stream st: a subsequence of
\* its first occurrences (by case-folded title) that has every non-empty
\* title
C13_DedupOf(got, st) ==
    /\ \A k \in DOMAIN got :
          \E i \in DOMAIN st :
              /\ got[k] = st[i]
              /\ st[i].title # <<>>
              /\ \A h \in 1..(i - 1) : lower(st[h].title) # lower(st[i].title)
    /\ \A i \in DOMAIN st :
          st[i].title # <<>> =>
              \E k \in DOMAIN got : lower(got[k].title) = lower(st[i].title)
    /\ \A i, j \in DOMAIN got :
          i # j => lower(got[i].title) # lower(got[j].title)

\* C13: whichever adapter's request fails, collect_papers does not raise
\* and returns the deduplicated records of the other adapters of the
\* priority list.
C13_AdapterErrorIsolated ==
    collectRuns > 0 =>
        /\ ~collectRaised
        /\ C13_DedupOf(collected,
                       C13_OtherStream(EffectivePriority(source_priority), 1))

\* what the code does for C13: the failure of the OpenReview or the
\* official-site request, and one that feedparser.parse records in the
\* feed, leave the other adapters' records; an exception of
\* feedparser.parse leaves collect_papers when arxiv is a source of the
\* priority list
C13_AsCoded ==
    collectRuns > 0 =>
        /\ collectRaised <=>
               /\ outage = "arxiv_raise"
               /\ "arxiv" \in Range(EffectivePriority(source_priority))
        /\ ~collectRaised =>
               C13_DedupOf(collected,
                           C13_OtherStream(EffectivePriority(source_priority),
                                           1))

(***************************************************************************)
(* Properties of verify_repo (SpecVerify).                                 *)
(***************************************************************************)

\* C4: whenever the repository metadata fetch has yielded no metadata (the
\* repository is unreachable or not found), verify_repo has returned status
\* None with has_readme and has_code false and no last_commit, having made
\* no call but the metadata fetch; and whenever it returns with metadata,
\* the status is Verified or Placeholder.
C4_NoMetadataYieldsNone ==
    /\ (v_calls # <<>> /\ v_meta.kind # "ok") =>
           /\ v_pc = "done"
           /\ VerifyResult = [status |-> "None", has_readme |-> FALSE,
                              has_code |-> FALSE, last_commit |-> NoDate]
           /\ v_calls = <<"repos">>
    /\ (v_pc = "done" /\ v_meta.kind = "ok") =>
           v_status \in {"Verified", "Placeholder"}

\* what the code does for C4: the None verdict, with no further call, when
\* the metadata request is answered with a status other than 200 or with
\* an empty object; when the request itself raises, verify_repo raises
C4_NoMetadataAsCoded ==
    /\ (v_calls # <<>> /\ v_meta.kind \in {"none", "empty"}) =>
           /\ v_pc = "done"
           /\ VerifyResult = [status |-> "None", has_readme |-> FALSE,
                              has_code |-> FALSE, last_commit |-> NoDate]
           /\ v_calls = <<"repos">>
    /\ (v_calls # <<>> /\ v_meta.kind = "raise") =>
           (v_pc = "raised" /\ v_calls = <<"repos">>)
    /\ (v_pc = "done" /\ v_meta.kind = "ok") =>
           v_status \in {"Verified", "Placeholder"}

\* the names of FileNames that have an allow-listed extension
C5_NamesWithCodeExtension == {<<"a", ".", "p", "y">>, <<"A", ".", "P", "Y">>}

\* C5: for a reachable repository on which neither the recency step nor
\* the LLM step set the status, has_readme is (size > 0), has_code is
\* (some root-level name has an allow-listed extension), and the status is
\* Verified if both hold and Placeholder otherwise.
C5_BaselineStatus ==
    (v_pc = "done" /\ v_meta.kind = "ok" /\ ~v_recency_fired /\ ~v_llm_fired) =>
        LET readme == v_meta.size > 0
            code == \E i \in DOMAIN v_files :
                        v_files[i] \in C5_NamesWithCodeExtension
        IN  /\ v_has_readme = readme
            /\ v_has_code = code
            /\ v_status = IF readme /\ code THEN "Verified" ELSE "Placeholder"

\* C5's case: a populated repository with a code file, no downgrade, is
\* returned as Verified.
C5_Witness ==
    /\ v_pc = "done"
    /\ v_meta.kind = "ok"
    /\ v_meta.size > 0
    /\ v_files # <<>>
    /\ ~v_recency_fired
    /\ ~v_llm_fired
    /\ v_status = "Verified"

\* C6: whenever verify_repo returns and both the paper date and last_commit
\* are known datetimes, the status is Placeholder if they are more than
\* RecencyDays days apart, in either direction, and the recency step leaves
\* the baseline alone if they are not.
C6_RecencyDowngrade ==
    (/\ v_pc = "done"
     /\ v_meta.kind = "ok"
     /\ v_paper_date.kind = "dt"
     /\ v_last_commit.kind = "dt") =>
        LET apart == Abs(v_last_commit.t - v_paper_date.t)
        IN  /\ apart > RecencyDays * TicksPerDay => v_status = "Placeholder"
            /\ apart <= RecencyDays * TicksPerDay => ~v_recency_fired

\* what the code does for C6: the recency step fires exactly when both
\* datetimes are offset-aware alike and the floor of their difference in
\* days is beyond RecencyDays in absolute value
C6_RecencyAsCoded ==
    (v_pc = "done" /\ v_meta.kind = "ok") =>
        (v_recency_fired <=>
            /\ v_paper_date.kind = "dt"
            /\ v_last_commit.kind = "dt"
            /\ v_paper_date.aware = v_last_commit.aware
            /\ \/ v_last_commit.t - v_paper_date.t
                      >= (RecencyDays + 1) * TicksPerDay
               \/ v_paper_date.t - v_last_commit.t > RecencyDays * TicksPerDay)

\* C15: the LLM step of verify_repo leaves the status as it was or changes
\* Verified to Placeholder; a status that was Placeholder before the step
\* is returned as Placeholder; the step never gives Verified to a status
\* that was not.
C15_LLMNeverUpgrades ==
    [][(v_pc = "llm" /\ v_pc' = "done") =>
          /\ \/ v_status' = v_status
             \/ (v_status = "Verified" /\ v_status' = "Placeholder")
          /\ v_status = "Placeholder" => v_status' = "Placeholder"
          /\ v_status' = "Verified" => v_status = "Verified"]_vars

\* C15's case: a status that the earlier steps left Placeholder went
\* through an LLM step whose result flags nothing, and is returned as
\* Placeholder.
C15_Witness ==
    /\ v_pc = "done"
    /\ v_calls[Len(v_calls)] = "llm"
    /\ ~v_llm_fired
    /\ ~v_recency_fired
    /\ Baseline(v_has_code, v_has_readme) = "Placeholder"
    /\ v_status = "Placeholder"

\* C19: whenever verify_repo returns after check_repo_placeholder judged
\* the readme a placeholder, the returned status is Placeholder.
C19_AffirmativeJudgmentDowngrades ==
    (v_pc = "done" /\ v_judgment = "true") => v_status = "Placeholder"

\* what the code does for C19: the status after the LLM step follows the
\* reading of the summary call's JSON, whatever the judgment was
C19_AsCoded ==
    [][(v_pc = "llm" /\ v_pc' = "done") =>
          (v_status' = IF v_llm_fired' THEN "Placeholder" ELSE v_status)]_vars

(***************************************************************************)
(* Properties of the enrichment loop (SpecSummarize, SpecCluster).         *)
(***************************************************************************)

\* ceil(b / n)
CeilDiv(b, n) == (b + n - 1) \div n

C8_SaveClustersReplaces ==
    [][~c_raised' =>
          /\ RowsOfScope(clusters', c_args'.scope)
                 = ClusterRows(c_args'.scope[1], c_args'.scope[2],
                               c_args'.assignments)
          /\ \A sc \in ClusterScopes \ {c_args'.scope} :
                 RowsOfScope(clusters', sc) = RowsOfScope(clusters, sc)]_vars

\* C8's case: the last save_clusters replaced different, earlier
\* assignments of its (conference, year) while another year of the same
\* conference has assignments stored.
C8_Witness ==
    /\ c_replaced
    /\ \E sc \in ClusterScopes \ {c_args.scope} :
           RowsOfScope(clusters, sc) # <<>>
    /\ RowsOfScope(clusters, c_args.scope)
           = ClusterRows(c_args.scope[1], c_args.scope[2], c_args.assignments)

\* C18: whatever the collaborator responds, the summarization loop makes
\* at most ceil(B / N) batch_summarize calls (and so ends).
C18_BatchCallsBounded ==
    s_batches <= CeilDiv(Cardinality(s_papers), max_batch_size)

\* what the code does for C18: a batch_summarize call that saves no
\* summary (two failed attempts, or a list without usable ids) is followed
\* by another call on the same batch, without limit
C18_AsCoded ==
    [][(s_pc = "chat" /\ s_pc' # "raised" /\ cj_ret'.kind # "pending"
           /\ summaries' = summaries) =>
          (s_pc' = "chat" /\ s_batch' = s_batch
              /\ s_batches' = s_batches + 1)]_vars

\* whether a response is a failed attempt: the call raised or the content
\* did not parse
C9_Failed(resp) == resp.kind \in {"raise", "malformed"}

\* C9: a _chat_json call makes at most two collaborator calls, the second
\* only after the first failed; it returns the value of the first response
\* that parses, and None after two failures; it never raises (the only
\* exception in the loop comes after it has returned a value).
C9_ChatJsonRetry ==
    /\ Len(cj_responses) <= 2
    /\ Len(cj_responses) = 2 => C9_Failed(cj_responses[1])
    /\ cj_ret.kind = "value" =>
           /\ cj_responses # <<>>
           /\ ~C9_Failed(cj_responses[Len(cj_responses)])
           /\ cj_ret.val = cj_responses[Len(cj_responses)]
    /\ cj_ret.kind = "none" =>
           /\ Len(cj_responses) = 2
           /\ C9_Failed(cj_responses[1])
           /\ C9_Failed(cj_responses[2])
    /\ (cj_ret.kind = "pending" /\ s_attempt > 0) =>
           /\ Len(cj_responses) = 1
           /\ C9_Failed(cj_responses[1])
    /\ s_pc = "raised" => cj_ret.kind = "value"

\* C9's case: two attempts in a row failed and _chat_json returned None.
C9_Witness ==
    /\ cj_ret.kind = "none"
    /\ Len(cj_responses) = 2
    /\ s_pc \in {"chat", "done"}

(***************************************************************************)
(* Properties of the code_links table (SpecLinks).                         *)
(***************************************************************************)

\* C20: after a save_code_link call the table holds at most one code link
\* of each (paper, url); the one of the call's pair holds the status,
\* last_commit, has_readme and has_code of that call; and the rows of every
\* other pair are as they were before the call.
C20_OneVerdictPerPair ==
    [][/\ (\A pr \in LinkPairs : Len(RowsOfPair(code_links', pr)) <= 1)
        /\ LET rows == RowsOfPair(code_links', cl_args'.pair)
           IN  /\ Len(rows) = 1
               /\ rows[1].status = cl_args'.result.status
               /\ rows[1].last_commit = cl_args'.result.last_commit
               /\ rows[1].has_readme \in {0, 1}
               /\ rows[1].has_code \in {0, 1}
               /\ (rows[1].has_readme = 1) = cl_args'.result.has_readme
               /\ (rows[1].has_code = 1) = cl_args'.result.has_code
        /\ \A pair \in LinkPairs \ {cl_args'.pair} :
              RowsOfPair(code_links', pair) = RowsOfPair(code_links, pair)]_vars

\* C20's case: the last call overwrote a different verdict of its pair
\* while verdicts of the same paper's other url and of the same url of
\* another paper are stored.
C20_Witness ==
    /\ cl_replaced
    /\ Len(code_links) = 3
    /\ \A pair \in LinkPairs : Len(RowsOfPair(code_links, pair)) = 1
    /\ RowsOfPair(code_links, cl_args.pair)[1].status = cl_args.result.status

(***************************************************************************)
(* Properties of a pipeline run (SpecPipeline).                            *)
(***************************************************************************)

\* whether the run has started the stage for the conference
Started(conf, stage) == Event(conf, stage) \in Range(p_log)

\* whether every candidate link of the conference has a stored verdict
AllLinksSaved(conf) ==
    \A i \in DOMAIN PipelineLinks[conf] :
        RowsOfPair(code_links, PipelineLinks[conf][i]) # <<>>

\* whether the conference was processed to the end
Processed(conf) ==
    /\ Started(conf, "collect")
    /\ Started(conf, "verify")
    /\ AllLinksSaved(conf)

\* C14: no run is aborted by a failure of verify_repo on one URL or by the
\* collaborator's response to one conference's clustering; and a run that
\* is not aborted (as none should be on such failures) has processed every
\* triggered conference, stored a verdict for every candidate link and
\* rendered the site.
C14_LocalFailureIsolated ==
    /\ p_failure \notin {"verify", "verify_llm", "cluster"}
    /\ p_pc = "done" =>
           /\ \A k \in DOMAIN p_triggered : Processed(p_triggered[k])
           /\ Started(0, "render")

\* what the code does for C14: an exception of verify_repo, of
\* cluster_papers or save_clusters (as of collect_papers and
\* batch_summarize) ends the run where it is raised: the conference's
\* remaining links, the remaining conferences and the site are left out;
\* two failed clustering attempts do not raise
C14_AsCoded ==
    /\ p_pc = "aborted" <=> p_failure # "none"
    /\ p_pc = "aborted" =>
           /\ ~Started(0, "render")
           /\ \A k \in DOMAIN p_triggered :
                  k > p_idx => ~Started(p_triggered[k], "collect")
    /\ p_pc = "done" =>
           /\ \A k \in DOMAIN p_triggered : Processed(p_triggered[k])
           /\ Started(0, "render")

\* the order of the stages of one conference
StageRank(stage) ==
    CASE stage = "collect" -> 1
      [] stage = "summarize" -> 2
      [] stage = "cluster" -> 3
      [] stage = "trend" -> 4
      [] stage = "verify" -> 5
      [] OTHER -> 6

\* the position of a conference in the triggered list
PosOf(conf) == CHOOSE k \in DOMAIN p_triggered : p_triggered[k] = conf

\* C16: of two stages started in a run, the earlier one is of an earlier
\* triggered conference, or of the same conference and earlier in the
\* order collection, summarization, clustering, trend, code verification;
\* a conference is started only when the one before it is processed to
\* the end; and the site is rendered last, after every triggered
\* conference is processed.
C16_StageOrder ==
    /\ \A i, j \in DOMAIN p_log :
          i < j =>
              /\ p_log[i].stage # "render"
              /\ p_log[j].stage # "render" =>
                     \/ PosOf(p_log[i].conf) < PosOf(p_log[j].conf)
                     \/ /\ p_log[i].conf = p_log[j].conf
                        /\ StageRank(p_log[i].stage) < StageRank(p_log[j].stage)
    /\ \A k \in DOMAIN p_triggered :
          (k > 1 /\ Started(p_triggered[k], "collect")) =>
              Processed(p_triggered[k - 1])
    /\ Started(0, "render") =>
          \A k \in DOMAIN p_triggered : Processed(p_triggered[k])

\* C16's case: a run with a collaborator went through the five stages of
\* two conferences and then rendered the site.
C16_Witness ==
    /\ p_pc = "done"
    /\ p_llm
    /\ Len(p_triggered) = 2
    /\ Len(p_log) = 11
    /\ p_log[5] = Event(p_triggered[1], "verify")
    /\ p_log[6] = Event(p_triggered[2], "collect")
    /\ p_log[11] = Event(0, "render")

\* the stages and tables of the enrichment loop
EnrichStages == {"summarize", "cluster", "trend"}

EnrichTables == {"summaries", "clusters", "trends"}

PassDone == t_trend.kind # "notrun"

\* C21: after a process_conference pass with a collaborator, storage holds
\* at most one trend for the pass's (conference, year), and a stored trend
\* is the one this pass synthesized and saved, from the label counts of the
\* cluster assignments this pass left in storage.
C21_StoredTrendIsOfThisPass ==
    PassDone =>
        LET scope == c_args.scope
            rows == TrendsOfScope(trends, scope)
        IN  /\ Len(rows) <= 1
            /\ \A i \in DOMAIN rows :
                   /\ t_saved
                   /\ rows[i].summary = t_trend
                   /\ rows[i].summary.of =
                          fetch_cluster_counts(clusters, scope[1], scope[2])

\* what the code does: the trends table never holds two rows of one
\* (conference, year), and a pass whose summarize_trend gave a non-empty
\* text stores that text, written for the counts of the clusters in storage
C21_AsCoded ==
    /\ \A scope \in ClusterScopes : Len(TrendsOfScope(trends, scope)) <= 1
    /\ (PassDone /\ t_saved) =>
           LET scope == c_args.scope
           IN  /\ TrendsOfScope(trends, scope)
                      = <<TrendRow(scope[1], scope[2], t_trend)>>
               /\ t_trend.of
                      = fetch_cluster_counts(clusters, scope[1], scope[2])

\* a pass that saved no trend leaves the trends table as it was
C21_UnsavedKeepsOldTrend ==
    [][(PassDone' /\ ~t_saved') => trends' = trends]_vars

(***************************************************************************)
(* Properties of verify_repo as process_conference calls it (SpecVerify).  *)
(***************************************************************************)
\* the verdicts code_links holds for the link of the call
PersistedRows == RowsOfPair(code_links, WiredLink)

\* C22: in the pipeline as wired (the paper date is the stored created_at,
\* without an offset, and last_commit has a trailing Z), a reachable
\* repository with recognized code files and a non-zero size whose last
\* commit is more than RecencyDays days from the paper's date is persisted
\* with the status Placeholder.
C22_WiredStaleRepoIsPlaceholder ==
    (/\ v_pc = "saved"
     /\ v_meta.kind = "ok"
     /\ v_has_code
     /\ v_has_readme
     /\ v_last_commit.kind = "dt"
     /\ v_last_commit.aware
     /\ Abs(v_last_commit.t - v_paper_date.t) > RecencyDays * TicksPerDay) =>
        /\ PersistedRows # <<>>
        /\ \A i \in DOMAIN PersistedRows :
               PersistedRows[i].status = "Placeholder"

\* what the code does in the pipeline as wired: the recency step never
\* fires, and the persisted status is the baseline unless the LLM step
\* set it
C22_AsCoded ==
    v_pc = "saved" =>
        /\ v_paper_date = created_at
        /\ ~v_recency_fired
        /\ PersistedRows
               = <<CodeLinkRow(WiredLink[1], WiredLink[2], VerifyResult)>>
        /\ (v_meta.kind = "ok" /\ ~v_llm_fired) =>
               v_status = Baseline(v_has_code, v_has_readme)

====
